---- MODULE Spec2Model ----
(***************************************************************************)
(* A model of the software renderer's frame driver (src/main.rs), camera   *)
(* (src/camera.rs) and star field (src/skybox.rs).                         *)
(*                                                                         *)
(* The code under src/ calls a Framebuffer (clear, set_current_color,      *)
(* point) declared by `mod framebuffer` whose file is not under src/; the  *)
(* Fb* operators below model it from the specification's section 4.4.      *)
(* The code of main.rs / skybox.rs is modelled as a generator of           *)
(* framebuffer calls, and Exec interprets the calls.                       *)
(*                                                                         *)
(* Numbers.  f32 values are modelled by exact integers or by exact         *)
(* fractions num/den, so rounding is not modelled.  Depths are stored in   *)
(* units of 1/(Steps-1) so that the interpolated depth of draw_line is an  *)
(* integer.  usize is modelled with UsizeBits bits.                        *)
(***************************************************************************)
EXTENDS Integers, Sequences, FiniteSets, TLC

\* ---------------------------------------------------------------- bounds
Width == 2
Height == 2
UsizeBits == 8
MaxOps == 3
MaxDraws == 2
MaxRenders == 2
MaxInputs == 2
MaxFrames == 2
MaxClock == 33
MaxBatch == 3

\* ------------------------------------------------------- program constants
Steps == 100
StarDepthUnits == 1000
TrailColor == 16711680
BackgroundColor == 0
FarDepth == 100000000
MinInterval == 16
TrailCap == 1000

\* the colours 0xFFFFFF and 0x00FF00
White == 255 * 65536 + 255 * 256 + 255
Green == 255 * 256

UsizeMax == 2 ^ UsizeBits - 1
DepthScale == Steps - 1
StarDepth == StarDepthUnits * DepthScale

Cells == (0 .. Width - 1) \X (0 .. Height - 1)

Min(a, b) == IF a < b THEN a ELSE b

VARIABLES
  framebuffer,   \* [buffer, zbuffer, width, height, background_color, current_color]
  written,       \* ghost: the in-bounds point calls since the last clear
  oob_changed,   \* ghost: the callers whose out-of-bounds coordinate changed a cell
  wrapped_seen,  \* ghost: a coordinate handed to point came from a wrapped subtraction
  panicked,      \* the process aborted (arithmetic overflow panic of a debug build)
  debug_build,   \* overflow checks compiled in (debug) or not (release)
  ops,           \* number of calls made (bounds the exploration)
  last_render,   \* ghost: triangles, rasterized set and fragments of the last render
  batch,         \* the draw items of one frame (order specification)
  pending,       \* the items of batch not yet processed
  camera,        \* [eye, center, tilt, up, has_changed]
  input,         \* ghost: the keys and the camera of the last handle_input call
  pc,            \* where main is: loop, input, clear, ship, planet, present, exited
  clock,         \* Instant::now(), in ms since the start of main
  last_frame,    \* last_frame, in ms
  time,          \* the frame counter `time`
  planet_index,  \* the index i of the planet loop
  orbits,        \* the trails `orbits` of the current loop iteration
  sky_stars,     \* the skybox's stars as projected with the current camera
  frame_log,     \* ghost: the clear, draws and presentation of the current frame
  presented,     \* ghost: what update_with_buffer was given, and how often
  samples,       \* ghost: the number of handle_input calls
  accepted,      \* ghost: the clock values of the accepted frames
  skipped,       \* ghost: an iteration was abandoned since the last accepted frame
  drawn          \* ghost: the segments drawn per trail in the last planet iteration

rvars == <<framebuffer, written, oob_changed, wrapped_seen, panicked, debug_build, ops,
           last_render>>
ovars == <<batch, pending>>
cvars == <<camera, input>>
fvars == <<pc, clock, last_frame, time, planet_index, orbits, sky_stars, presented, samples, accepted,
           skipped, drawn>>
vars == <<rvars, ovars, cvars, fvars, frame_log>>

\* ------------------------------------------------ Framebuffer (section 4.4)
FbNew ==
  [buffer |-> [c \in Cells |-> BackgroundColor],
   zbuffer |-> [c \in Cells |-> FarDepth],
   width |-> Width, height |-> Height,
   background_color |-> BackgroundColor,
   current_color |-> White]

FbClear(fb) ==
  [fb EXCEPT !.buffer = [c \in Cells |-> fb.background_color],
             !.zbuffer = [c \in Cells |-> FarDepth]]

FbSetCurrentColor(fb, color) == [fb EXCEPT !.current_color = color]

FbPoint(fb, x, y, depth) ==
  IF x < fb.width /\ y < fb.height
  THEN IF depth < fb.zbuffer[<<x, y>>]
       THEN [fb EXCEPT !.buffer = [c \in Cells |->
                                     IF c = <<x, y>> THEN fb.current_color ELSE fb.buffer[c]],
                       !.zbuffer = [c \in Cells |->
                                      IF c = <<x, y>> THEN depth ELSE fb.zbuffer[c]]]
       ELSE fb
  ELSE fb

\* --------------------------------------------------------- numeric casts
\* `v as usize` for the f32 value num/den (den > 0): truncation toward zero,
\* saturating at 0 for negative values and at usize::MAX for large ones.
AsUsize(num, den) ==
  IF num <= 0 THEN 0 ELSE Min(num \div den, UsizeMax)

\* `a - b` on usize in a release build: wraps modulo 2^UsizeBits.
UsizeWrappingSub(a, b) == (a - b) % (2 ^ UsizeBits)

\* `a + b` on usize in a release build.
UsizeWrappingAdd(a, b) == (a + b) % (2 ^ UsizeBits)

\* ------------------------------------------------------- framebuffer calls
\* A call record.  The fields src_oob, wrapped and intended are ghosts that
\* describe how the caller computed the call: src_oob is {} when the screen
\* coordinate the caller computed lies inside the framebuffer, and else holds
\* the caller's name; wrapped tells a coordinate came from a wrapped usize
\* subtraction; intended is the colour the caller means to paint.
CallClear == [op |-> "clear"]
CallColor(c) == [op |-> "set_current_color", color |-> c]
CallPoint(x, y, depth, src_oob, wrapped, intended) ==
  [op |-> "point", x |-> x, y |-> y, depth |-> depth,
   src_oob |-> src_oob, wrapped |-> wrapped, intended |-> intended]
CallPanic == [op |-> "panic"]
\* not a call: a ghost mark that a step of the frame (a draw, ...) begins
CallEvent(e) == [op |-> "event", event |-> e]

\* The machine state the calls act on.
Machine(fb, w, o, ws, p, log) ==
  [fb |-> fb, written |-> w, oob_changed |-> o, wrapped_seen |-> ws, panicked |-> p,
   log |-> log]

ExecOne(m, call) ==
  IF m.panicked THEN m
  ELSE IF call.op = "clear"
  THEN [m EXCEPT !.fb = FbClear(m.fb), !.written = {}]
  ELSE IF call.op = "set_current_color"
  THEN [m EXCEPT !.fb = FbSetCurrentColor(m.fb, call.color)]
  ELSE IF call.op = "panic"
  THEN [m EXCEPT !.panicked = TRUE]
  ELSE IF call.op = "event"
  THEN [m EXCEPT !.log = Append(@, call.event)]
  ELSE LET after == FbPoint(m.fb, call.x, call.y, call.depth)
           inside == call.x < Width /\ call.y < Height
       IN [m EXCEPT
             !.fb = after,
             !.written = IF inside
                         THEN @ \cup {[cell |-> <<call.x, call.y>>,
                                       depth |-> call.depth,
                                       color |-> call.intended]}
                         ELSE @,
             !.oob_changed = IF after # m.fb THEN @ \cup call.src_oob ELSE @,
             !.wrapped_seen = @ \/ call.wrapped]

\* The calls in order (split in halves to keep the evaluation shallow; nothing
\* runs once the process has panicked).
RECURSIVE Exec(_, _)
Exec(m, calls) ==
  IF m.panicked \/ calls = <<>> THEN m
  ELSE IF Len(calls) = 1 THEN ExecOne(m, calls[1])
  ELSE LET half == Len(calls) \div 2
       IN Exec(Exec(m, SubSeq(calls, 1, half)), SubSeq(calls, half + 1, Len(calls)))

\* ------------------------------------------------------------- vectors
Vec(x, y, z) == [x |-> x, y |-> y, z |-> z]
VSub(a, b) == Vec(a.x - b.x, a.y - b.y, a.z - b.z)
VAdd(a, b) == Vec(a.x + b.x, a.y + b.y, a.z + b.z)
VScale(a, k) == Vec(a.x * k, a.y * k, a.z * k)
Cross(a, b) ==
  Vec(a.y * b.z - a.z * b.y, a.z * b.x - a.x * b.z, a.x * b.y - a.y * b.x)
Dot(a, b) == a.x * b.x + a.y * b.y + a.z * b.z
Origin == Vec(0, 0, 0)

\* ------------------------------------------------- render (main.rs 142-187)
\* Primitive assembly: i in (0..len).step_by(3), a triangle when i + 2 < len.
RECURSIVE AssembleFrom(_, _)
AssembleFrom(transformed_vertices, i) ==
  IF i >= Len(transformed_vertices) THEN <<>>
  ELSE (IF i + 2 < Len(transformed_vertices)
        THEN << <<transformed_vertices[i + 1], transformed_vertices[i + 2],
                  transformed_vertices[i + 3]>> >>
        ELSE <<>>)
       \o AssembleFrom(transformed_vertices, i + 3)

\* The view direction of the culling test, as a plausible slip would write it.
ViewDirTowardOrigin(tri) == VSub(Origin, tri[1].position)

\* let view_dir = tri[0].position - Vec3::new(0.0, 0.0, 0.0);
ViewDir(tri) == VSub(tri[1].position, Origin)

\* let normal = (tri[1].position - tri[0].position).cross(&(tri[2].position - tri[0].position));
Normal(tri) ==
  Cross(VSub(tri[2].position, tri[1].position), VSub(tri[3].position, tri[1].position))

\* if normal.dot(&view_dir) < 0.0 { continue; }
Culled(tri) == Dot(Normal(tri), ViewDir(tri)) < 0

\* Rasterization stage: the triangles handed to triangle(), in order.
Rasterized(triangles) == {k \in 1 .. Len(triangles) : ~Culled(triangles[k])}

\* fragments.extend(triangle(..)): raster[k] is what triangle() returns for the
\* k-th assembled triangle (an input: the rasterizer is not modelled).  Each
\* fragment is tagged with the triangle it comes from (a ghost).
RECURSIVE FragmentsFrom(_, _, _)
FragmentsFrom(triangles, raster, k) ==
  IF k > Len(triangles) THEN <<>>
  ELSE (IF Culled(triangles[k]) THEN <<>>
        ELSE [j \in 1 .. Len(raster[k]) |-> [tri |-> k, fragment |-> raster[k][j]]])
       \o FragmentsFrom(triangles, raster, k + 1)

\* Fragment stage with the two framebuffer calls swapped (point, then colour).
FragmentCallsSwapped(fragment) ==
  LET x == AsUsize(fragment.x, 2)
      y == AsUsize(fragment.y, 2)
      src_oob == IF fragment.x < 0 \/ fragment.y < 0
                    \/ fragment.x >= 2 * Width \/ fragment.y >= 2 * Height
                 THEN {"render"} ELSE {}
  IN IF x < Width /\ y < Height
     THEN <<CallPoint(x, y, fragment.depth * DepthScale, src_oob, FALSE, fragment.color),
            CallColor(fragment.color)>>
     ELSE <<>>

\* One iteration of the fragment processing loop (main.rs 176-186).  The
\* fragment position is in half pixels; fragment.color is the colour the
\* fragment shader returns for it.
FragmentCalls(fragment) ==
  LET x == AsUsize(fragment.x, 2)
      y == AsUsize(fragment.y, 2)
      src_oob == IF fragment.x < 0 \/ fragment.y < 0
                    \/ fragment.x >= 2 * Width \/ fragment.y >= 2 * Height
                 THEN {"render"} ELSE {}
  IN IF x < Width /\ y < Height
     THEN <<CallColor(fragment.color),
            CallPoint(x, y, fragment.depth * DepthScale, src_oob, FALSE, fragment.color)>>
     ELSE <<>>

RECURSIVE FragmentStage(_)
FragmentStage(fragments) ==
  IF fragments = <<>> THEN <<>>
  ELSE FragmentCalls(Head(fragments)) \o FragmentStage(Tail(fragments))

Render(transformed_vertices, raster) ==
  LET triangles == AssembleFrom(transformed_vertices, 0)
      fragments == FragmentsFrom(triangles, raster, 1)
  IN [triangles |-> triangles,
      rasterized |-> Rasterized(triangles),
      fragments |-> fragments,
      calls |-> FragmentStage([j \in 1 .. Len(fragments) |-> fragments[j].fragment])]

\* ---------------------------------------------- draw_line (main.rs 119-131)
\* Point i of the line: t = i / (steps - 1), so x = (start.x * (steps-1-i) +
\* end.x * i) / (steps - 1), and x_screen = (width * (x + 1) / 2) as usize.
LineNum(a, b, i) == a * (DepthScale - i) + b * i

LinePoint(start, end, color, i) ==
  LET xnum == Width * (LineNum(start.x, end.x, i) + DepthScale)
      ynum == Height * (LineNum(start.y, end.y, i) + DepthScale)
      den == 2 * DepthScale
      x_screen == AsUsize(xnum, den)
      y_screen == AsUsize(ynum, den)
      src_oob == IF xnum < 0 \/ ynum < 0 \/ xnum >= Width * den \/ ynum >= Height * den
                 THEN {"draw_line"} ELSE {}
  IN <<CallColor(color),
       CallPoint(x_screen, y_screen, LineNum(start.z, end.z, i), src_oob, FALSE, color)>>

\* for i in 0..steps: the two calls of iteration i are calls 2i+1 and 2i+2.
DrawLine(start, end, color) ==
  [k \in 1 .. 2 * Steps |-> LinePoint(start, end, color, (k - 1) \div 2)[2 - (k % 2)]]

\* ------------------------------------- Skybox::render_sb (skybox.rs 46-96)
\* A star as the loop body sees it after projection: front is
\* projected.w > 0 and screen_pos.z >= 0; sx, sy are screen_pos.x / .y in half
\* pixels; brightness is in quarters (0..3 for [0, 1)); size is 1..3.
StarColor(star) ==
  LET intensity == Min((star.brightness * 255) \div 4, 255)
  IN intensity * 65536 + intensity * 256 + intensity

\* `x - 1` on usize: a panic when overflow checks are on, a wrap otherwise.
\* The result is the calls up to and including the failing one.
StarPointSub(x, dx, y, dy, color, debug) ==
  IF (dx = 1 /\ x = 0) \/ (dy = 1 /\ y = 0)
  THEN IF debug THEN <<CallPanic>>
       ELSE <<CallPoint(UsizeWrappingSub(x, dx), UsizeWrappingSub(y, dy), StarDepth,
                        {"render_sb"}, TRUE, color)>>
  ELSE <<CallPoint(x - dx, y - dy, StarDepth, {}, FALSE, color)>>

StarPointAdd(x, dx, y, dy, color) ==
  <<CallPoint(UsizeWrappingAdd(x, dx), UsizeWrappingAdd(y, dy), StarDepth,
              IF x + dx >= Width \/ y + dy >= Height THEN {"render_sb"} ELSE {},
              FALSE, color)>>

\* A star painted without selecting its colour first.
StarPaintNone(color) == <<>>

\* framebuffer.set_current_color(color);
StarPaint(color) == <<CallColor(color)>>

StarCalls(star, debug) ==
  IF ~star.front THEN <<>>
  ELSE
    LET x == AsUsize(star.sx, 2)
        y == AsUsize(star.sy, 2)
        color == StarColor(star)
        src_oob == IF star.sx < 0 \/ star.sy < 0 THEN {"render_sb"} ELSE {}
    IN IF x < Width /\ y < Height
       THEN StarPaint(color) \o
            (IF star.size = 1
             THEN <<CallPoint(x, y, StarDepth, src_oob, FALSE, color)>>
             ELSE IF star.size = 2
             THEN <<CallPoint(x, y, StarDepth, src_oob, FALSE, color)>>
                  \o StarPointAdd(x, 1, y, 0, color)
                  \o StarPointAdd(x, 0, y, 1, color)
                  \o StarPointAdd(x, 1, y, 1, color)
             ELSE IF star.size = 3
             THEN <<CallPoint(x, y, StarDepth, src_oob, FALSE, color)>>
                  \o StarPointSub(x, 1, y, 0, color, debug)
                  \o StarPointAdd(x, 1, y, 0, color)
                  \o StarPointSub(x, 0, y, 1, color, debug)
                  \o StarPointAdd(x, 0, y, 1, color)
             ELSE <<>>)
       ELSE <<>>

RECURSIVE RenderSb(_, _)
RenderSb(stars, debug) ==
  IF stars = <<>> THEN <<>>
  ELSE StarCalls(Head(stars), debug) \o RenderSb(Tail(stars), debug)


\* ------------------------------------------------------ Camera (camera.rs)
\* Vectors stay on the integer lattice: the view direction center - eye is
\* always parallel to a horizontal axis, Normalize and Magnitude are exact
\* for such vectors, and a rotation step (0.05 rad in the code) is modelled by
\* a quarter turn about the vertical axis.  A pitch step (the rotation about
\* `right`, which would leave the lattice) is counted in camera.tilt: the
\* center of the code is the pair (center, tilt) of the model, center being
\* its horizontal part and tilt the number of pitch steps applied to it.
Sgn(n) == IF n > 0 THEN 1 ELSE IF n < 0 THEN -1 ELSE 0
Abs(n) == IF n < 0 THEN -n ELSE n
Normalize(v) == Vec(Sgn(v.x), Sgn(v.y), Sgn(v.z))
Magnitude(v) == Abs(v.x) + Abs(v.y) + Abs(v.z)

\* rotate_vec3(v, angle, axis) for a unit axis and `turns` quarter turns
\* (Rodrigues' formula with cos = 0, sin = turns).
RotateVec3(v, turns, axis) ==
  IF turns = 0 THEN v
  ELSE VAdd(VScale(Cross(axis, v), turns), VScale(axis, Dot(axis, v)))

\* Camera::new (camera.rs 11-18) with the arguments of main.rs 210-214.
CameraNew ==
  [eye |-> Vec(0, 0, 70), center |-> Vec(0, 0, 0), tilt |-> 0, up |-> Vec(0, 1, 0),
   has_changed |-> TRUE]

\* Camera::move_center (camera.rs 20-34)
MoveCenter(cam, direction) ==
  LET radius_vector == VSub(cam.center, cam.eye)
      radius == Magnitude(radius_vector)
      rotated == RotateVec3(radius_vector, direction.x, Vec(0, 1, 0))
      final_rotated == [horizontal |-> rotated, tilt |-> cam.tilt + direction.y]
  IN [cam EXCEPT !.center = VAdd(cam.eye, VScale(Normalize(final_rotated.horizontal), radius)),
                 !.tilt = final_rotated.tilt,
                 !.has_changed = TRUE]

\* Camera::move_ship (camera.rs 36-47)
MoveShip(cam, direction) ==
  LET forward == Normalize(VSub(cam.center, cam.eye))
      right == Normalize(Cross(forward, cam.up))
      up == Normalize(Cross(right, forward))
      movement == VAdd(VAdd(VScale(right, direction.x), VScale(up, direction.y)),
                       VScale(forward, direction.z))
  IN [cam EXCEPT !.eye = VAdd(cam.eye, movement),
                 !.center = VAdd(cam.center, movement),
                 !.has_changed = TRUE]

\* Camera::rotate_ship (camera.rs 50-63)
RotateShip(cam, direction) ==
  LET forward == Normalize(VSub(cam.center, cam.eye))
      rotated_forward == RotateVec3(forward, direction.x, cam.up)
      final_rotated == [horizontal |-> rotated_forward, tilt |-> cam.tilt + direction.y]
  IN [cam EXCEPT !.center = VAdd(cam.eye,
                                 VScale(final_rotated.horizontal,
                                        Magnitude(VSub(cam.center, cam.eye)))),
                 !.tilt = final_rotated.tilt,
                 !.has_changed = TRUE]

\* ------------------------------------------ handle_input (main.rs 341-391)
Keys == {"A", "D", "W", "S", "Q", "E", "Left", "Right", "Up", "Down"}
Down(keys, k) == IF k \in keys THEN 1 ELSE 0

\* The movement vector with the S key adding to z as the W key does.
MovementSameSign(keys) ==
  Vec(Down(keys, "D") - Down(keys, "A"),
      Down(keys, "Q") - Down(keys, "E"),
      Down(keys, "W") + Down(keys, "S"))

\* main.rs 345-366, movement_speed = 1.0
Movement(keys) ==
  Vec(Down(keys, "D") - Down(keys, "A"),
      Down(keys, "Q") - Down(keys, "E"),
      Down(keys, "W") - Down(keys, "S"))

\* main.rs 373-385
Rotation(keys) ==
  Vec(Down(keys, "Right") - Down(keys, "Left"),
      Down(keys, "Up") - Down(keys, "Down"),
      0)

HandleInput(cam, keys) ==
  LET movement == Movement(keys)
      rotation == Rotation(keys)
      moved == IF Magnitude(movement) > 0 THEN MoveShip(cam, movement) ELSE cam
  IN IF Magnitude(rotation) > 0
     THEN RotateShip(MoveCenter(moved, rotation), rotation)
     ELSE moved

NoInput == [called |-> FALSE]


\* ------------------------------------------------------------ input sets
PaintColors == {White, Green}
PointCells == {<<0, 0>>, <<1, 1>>, <<Width, 0>>}
PointDepths == {1 * DepthScale, 2 * DepthScale}

Fragment(x, y, depth, color) == [x |-> x, y |-> y, depth |-> depth, color |-> color]
\* positions in half pixels: (1,1), (0.5,0), (-1.5,0), (0,-0.5), (Width,1)
FragLists ==
  { <<Fragment(2, 2, 1, White)>>,
    <<Fragment(2, 2, 2, Green), Fragment(1, 0, 1, Green)>>,
    <<Fragment(-3, 0, 1, Green)>>,
    <<Fragment(0, -1, 2, White), Fragment(2 * Width, 2, 1, White)>> }

Vertex(p) == [position |-> p]
PA == Vec(1, 0, 0)
PB == Vec(0, 1, 0)
PC == Vec(0, 0, 1)
RasterArrays ==
  { <<Vertex(PA), Vertex(PB), Vertex(PC)>>,
    <<Vertex(PA), Vertex(PC), Vertex(PB), Vertex(PA)>> }

PD == Vec(-1, 0, 0)
CullPoints == {PA, PB, PC, PD}
CullArrays ==
  {<<Vertex(a), Vertex(b), Vertex(c)>> : a \in CullPoints, b \in CullPoints, c \in CullPoints}
  \cup { <<>>, <<Vertex(PA), Vertex(PB)>>,
         <<Vertex(PA), Vertex(PB), Vertex(PC), Vertex(PA), Vertex(PC), Vertex(PB)>>,
         <<Vertex(PA), Vertex(PC), Vertex(PB), Vertex(PA), Vertex(PB), Vertex(PC), Vertex(PA)>> }
CullFragLists ==
  { <<Fragment(2, 2, 1, White)>>,
    <<Fragment(0, 0, 2, Green), Fragment(2, 0, 1, White)>> }

\* the key sets tried: at most two keys down, and a few larger sets
KeySets ==
  {K \in SUBSET Keys : Cardinality(K) <= 2}
  \cup {Keys, {"A", "D", "W", "S"}, {"A", "D", "Left", "Right", "Up", "Down"},
        {"W", "Q", "A"}, {"A", "D", "W"}}

\* start and end of a trail segment (world positions, used as given)
LineEnds ==
  { <<Vec(0, 0, 1), Vec(0, 0, 1)>>,
    <<Vec(-3, 0, 1), Vec(0, 0, 2)>>,
    <<Vec(0, -1, 2), Vec(3, 0, 1)>> }

Star(front, sx, sy, brightness, size) ==
  [front |-> front, sx |-> sx, sy |-> sy, brightness |-> brightness, size |-> size]
StarLists ==
  { <<Star(TRUE, 2, 2, 3, 1)>>,
    <<Star(TRUE, 2, 2, 1, 3)>>,
    <<Star(TRUE, 0, 2, 2, 3), Star(TRUE, 2, 2, 3, 1)>>,
    <<Star(TRUE, 2, 0, 2, 3)>>,
    <<Star(TRUE, 2 * Width - 2, 2 * Height - 2, 1, 2)>>,
    <<Star(TRUE, 2 * Width - 1, 1, 3, 3)>>,
    <<Star(FALSE, 2, 2, 3, 3), Star(TRUE, -4, 2, 3, 1)>> }

NoRender == [triangles |-> <<>>, rasterized |-> {}, fragments |-> <<>>]

\* ------------------------------------------------------------- actions
Now == Machine(framebuffer, written, oob_changed, wrapped_seen, panicked, frame_log)

Run(calls) ==
  LET m == Exec(Now, calls)
  IN /\ framebuffer' = m.fb
     /\ written' = m.written
     /\ oob_changed' = m.oob_changed
     /\ wrapped_seen' = m.wrapped_seen
     /\ panicked' = m.panicked
     /\ frame_log' = m.log

Step == ~panicked /\ ops' = ops + 1 /\ UNCHANGED <<debug_build, ovars, cvars, fvars>>

DoClear == Step /\ Run(<<CallClear>>) /\ UNCHANGED last_render

DoSetCurrentColor ==
  \E c \in PaintColors :
    Step /\ Run(<<CallColor(c)>>) /\ UNCHANGED last_render

DoPoint ==
  \E cell \in PointCells, depth \in PointDepths :
    /\ Step
    /\ Run(<<CallPoint(cell[1], cell[2], depth,
                       IF cell[1] >= Width \/ cell[2] >= Height THEN {"point"} ELSE {},
                       FALSE,
                       framebuffer.current_color)>>)
    /\ UNCHANGED last_render

RenderWith(transformed_vertices, raster) ==
  LET r == Render(transformed_vertices, raster)
  IN /\ Run(r.calls)
     /\ last_render' = [triangles |-> r.triangles, rasterized |-> r.rasterized,
                        fragments |-> r.fragments]

DoRender ==
  \E tv \in RasterArrays, fl \in FragLists :
    Step /\ RenderWith(tv, [k \in 1 .. 1 |-> fl])

\* render on any small vertex array; every triangle rasterizes to fl.
DoRenderCull ==
  \E tv \in CullArrays, fl \in CullFragLists :
    Step /\ RenderWith(tv, [k \in 1 .. Len(tv) |-> fl])

DoDrawLine ==
  \E ends \in LineEnds :
    Step /\ Run(DrawLine(ends[1], ends[2], TrailColor)) /\ UNCHANGED last_render

DoRenderSb ==
  \E stars \in StarLists :
    Step /\ Run(RenderSb(stars, debug_build)) /\ UNCHANGED last_render

\* The state of main when the loop is first reached (main.rs 190-230).
InitFrame ==
  /\ pc = "loop"
  /\ clock = 0
  /\ last_frame = 0
  /\ time = 0
  /\ planet_index = 0
  /\ orbits = <<>>
  /\ sky_stars = <<>>
  /\ frame_log = <<>>
  /\ presented = [count |-> 0, buffer |-> FbNew.buffer, time |-> 0, earlier |-> {}]
  /\ samples = 0
  /\ accepted = <<>>
  /\ skipped = FALSE
  /\ drawn = <<>>

\* handle_input called with the keys that are down.
DoHandleInput ==
  \E keys \in KeySets :
    /\ ops' = ops + 1
    /\ camera' = HandleInput(camera, keys)
    /\ input' = [called |-> TRUE, keys |-> keys, before |-> camera]
    /\ UNCHANGED <<framebuffer, written, oob_changed, wrapped_seen, panicked,
                   debug_build, last_render, ovars, fvars, frame_log>>

InitRaster ==
  /\ framebuffer = FbNew
  /\ written = {}
  /\ oob_changed = {}
  /\ wrapped_seen = FALSE
  /\ panicked = FALSE
  /\ debug_build \in BOOLEAN
  /\ ops = 0
  /\ last_render = NoRender
  /\ batch = {}
  /\ pending = {}
  /\ camera = CameraNew
  /\ input = NoInput
  /\ InitFrame

\* Any sequence of framebuffer calls and render calls.
NextRaster ==
  \/ ops < MaxOps /\ DoClear
  \/ ops < MaxOps /\ DoSetCurrentColor
  \/ ops < MaxOps /\ DoPoint
  \/ ops < MaxOps /\ DoRender

SpecRaster == InitRaster /\ [][NextRaster]_vars

\* Any sequence of render calls on small meshes.
NextCull ==
  \/ ops < MaxRenders /\ DoRenderCull
  \/ ops < MaxRenders /\ DoClear

SpecCull == InitRaster /\ [][NextCull]_vars

\* Any sequence of handle_input calls.
NextCam == ops < MaxInputs /\ DoHandleInput

InitCam == InitRaster /\ debug_build = FALSE

SpecCam == InitCam /\ [][NextCam]_vars

\* Any sequence of draw calls of the frame driver: render, draw_line, render_sb.
NextDraw ==
  \/ ops < MaxDraws /\ DoClear
  \/ ops < MaxDraws /\ DoRender
  \/ ops < MaxDraws /\ DoDrawLine
  \/ ops < MaxDraws /\ DoRenderSb

SpecDraw == InitRaster /\ [][NextDraw]_vars


\* ------------------------------------------------- main (main.rs 189-338)
\* let planet_positions = vec![ (base position, shader, scale) ... ]; the
\* base position is (base_x, 0, 0) and scale is in tenths.
Planets ==
  << [base_x |-> 0, shader |-> "Sun", scale |-> 100],
     [base_x |-> 10, shader |-> "VolcanicPlanet", scale |-> 10],
     [base_x |-> 20, shader |-> "Earth", scale |-> 15],
     [base_x |-> 30, shader |-> "RockyPlanet", scale |-> 13],
     [base_x |-> 40, shader |-> "GasPlanet", scale |-> 40],
     [base_x |-> 50, shader |-> "RingPlanet", scale |-> 35],
     [base_x |-> 60, shader |-> "IcyPlanet", scale |-> 8] >>

\* planet_orbit(time, radius, speed): a deterministic position on the circle
\* of the given radius; the angle time * speed is modelled in quarter turns,
\* with orbital_speed = 0.01 + i * 0.002 as 5 + i.
PlanetOrbit(t, orbital_radius, orbital_speed) ==
  LET phase == (t * orbital_speed) % 4
  IN IF phase = 0 THEN Vec(orbital_radius, 0, 0)
     ELSE IF phase = 1 THEN Vec(0, 0, orbital_radius)
     ELSE IF phase = 2 THEN Vec(-orbital_radius, 0, 0)
     ELSE Vec(0, 0, -orbital_radius)

\* main.rs 289-291, for the loop index b (0-based)
OrbitalPosition(t, b) == PlanetOrbit(t, Planets[b + 1].base_x, 5 + b)

\* let mut orbits: Vec<Vec<Vec3>> = vec![vec![]; planet_positions.len()];
FreshOrbits == [b \in 1 .. Len(Planets) |-> <<>>]

\* if orbits[i].len() > 1000 { orbits[i].remove(0); }  orbits[i].push(position);
TrailPush(trail, position) ==
  Append(IF Len(trail) > TrailCap THEN Tail(trail) ELSE trail, position)

\* for j in 0..orbit.len().saturating_sub(1) { draw_line(orbit[j], orbit[j + 1], color) }
RECURSIVE OrbitCalls(_, _)
OrbitCalls(orbit, j) ==
  IF j + 1 >= Len(orbit) THEN <<>>
  ELSE DrawLine(orbit[j + 1], orbit[j + 2], TrailColor) \o OrbitCalls(orbit, j + 1)

\* for (_i, orbit) in orbits.iter().enumerate() { ... }
RECURSIVE TrailCalls(_, _)
TrailCalls(all_orbits, b) ==
  IF b > Len(all_orbits) THEN <<>>
  ELSE OrbitCalls(all_orbits[b], 0) \o TrailCalls(all_orbits, b + 1)

Segments(orbit) == IF Len(orbit) = 0 THEN 0 ELSE Len(orbit) - 1

\* now - last_frame > Duration::from_millis(16): the comparison turned round
FrameTooEarlyInverted(now, last) == now - last > MinInterval

\* now - last_frame < Duration::from_millis(16)
FrameTooEarly(now, last) == now - last < MinInterval

RunFrame(calls) == Run(calls) /\ UNCHANGED <<debug_build, ops, ovars>>

\* Time passes.  The clock is read at the top of the loop only, so the time
\* that passes while a frame is rendered is part of the next tick.
Tick(steps, max_clock, max_wait) ==
  \E d \in steps :
    /\ pc = "loop"
    /\ ~panicked
    /\ clock + d <= max_clock
    /\ clock + d - last_frame <= max_wait
    /\ clock' = clock + d
    /\ UNCHANGED <<rvars, ovars, cvars, frame_log, pc, last_frame, time, planet_index,
                   orbits, sky_stars, presented, samples, accepted, skipped, drawn>>

\* while window.is_open() fails, or Escape is down: the loop ends.
LoopExit ==
  /\ pc = "loop"
  /\ ~panicked
  /\ pc' = "exited"
  /\ UNCHANGED <<rvars, ovars, cvars, frame_log, clock, last_frame, time, planet_index,
                 orbits, sky_stars, presented, samples, accepted, skipped, drawn>>

\* if now - last_frame < 16 ms { continue; }
LoopSkip ==
  /\ pc = "loop"
  /\ ~panicked
  /\ FrameTooEarly(clock, last_frame)
  /\ skipped' = TRUE
  /\ UNCHANGED <<rvars, ovars, cvars, frame_log, pc, clock, last_frame, time,
                 planet_index, orbits, sky_stars, presented, samples, accepted, drawn>>

\* last_frame = now; time += 1;
LoopAccept(max_frames) ==
  /\ pc = "loop"
  /\ ~panicked
  /\ ~FrameTooEarly(clock, last_frame)
  /\ time < max_frames
  /\ last_frame' = clock
  /\ time' = time + 1
  /\ accepted' = IF accepted = <<>> THEN <<clock>> ELSE <<accepted[Len(accepted)], clock>>
  /\ skipped' = FALSE
  /\ frame_log' = <<>>
  /\ pc' = "input"
  /\ UNCHANGED <<rvars, ovars, cvars, clock, planet_index, orbits, sky_stars, presented,
                 samples, drawn>>

\* handle_input(&window, &mut camera);
InputStep(key_sets) ==
  \E keys \in key_sets :
    /\ pc = "input"
    /\ camera' = HandleInput(camera, keys)
    /\ input' = [called |-> TRUE, keys |-> keys, before |-> camera]
    /\ samples' = samples + 1
    /\ pc' = "clear"
    /\ UNCHANGED <<rvars, ovars, frame_log, clock, last_frame, time, planet_index, orbits,
                   sky_stars, presented, accepted, skipped, drawn>>

\* framebuffer.clear();
ClearStep ==
  /\ pc = "clear"
  /\ RunFrame(<<CallEvent("clear"), CallClear>>)
  /\ pc' = "ship"
  /\ UNCHANGED <<last_render, cvars, clock, last_frame, time, planet_index, orbits,
                 sky_stars, presented, samples, accepted, skipped, drawn>>

\* The matrices, the ship (main.rs 250-272), then planet_positions and the
\* fresh orbits (main.rs 275-285).  A mesh is the vertex shader's output and
\* what triangle() returns for each of its triangles.
ShipStep(meshes, star_lists) ==
  \E mesh \in meshes, projected \in star_lists :
    LET r == Render(mesh.vertices, [k \in 1 .. Len(mesh.vertices) |-> mesh.fragments])
    IN /\ pc = "ship"
       /\ RunFrame(<<CallEvent("Ship")>> \o r.calls)
       /\ last_render' = [triangles |-> r.triangles, rasterized |-> r.rasterized,
                          fragments |-> r.fragments]
       /\ sky_stars' = projected
       /\ orbits' = FreshOrbits
       /\ planet_index' = 0
       /\ pc' = "planet"
       /\ UNCHANGED <<cvars, clock, last_frame, time, presented, samples, accepted,
                      skipped, drawn>>

\* One iteration of the planet loop (main.rs 287-332).
PlanetStep(meshes) ==
  \E mesh \in meshes, extra \in meshes :
    LET planet == Planets[planet_index + 1]
        orbital_position == OrbitalPosition(time, planet_index)
        pushed == [orbits EXCEPT ![planet_index + 1] = TrailPush(@, orbital_position)]
        body == Render(mesh.vertices, [k \in 1 .. Len(mesh.vertices) |-> mesh.fragments])
        more == Render(extra.vertices, [k \in 1 .. Len(extra.vertices) |-> extra.fragments])
        has_more == planet.shader \in {"RingPlanet", "RockyPlanet"}
        last == IF has_more THEN more ELSE body
        calls == <<CallEvent("skybox")>> \o RenderSb(sky_stars, debug_build)
                 \o <<CallEvent("trails")>> \o TrailCalls(pushed, 1)
                 \o <<CallEvent(planet.shader)>> \o body.calls
                 \o (IF planet.shader = "RingPlanet"
                     THEN <<CallEvent("Ring")>> \o more.calls
                     ELSE IF planet.shader = "RockyPlanet"
                     THEN <<CallEvent("Moon")>> \o more.calls
                     ELSE <<>>)
    IN /\ pc = "planet"
       /\ ~panicked
       /\ planet_index < Len(Planets)
       /\ (~has_more => extra = mesh)
       /\ orbits' = pushed
       /\ RunFrame(calls)
       /\ last_render' = [triangles |-> last.triangles, rasterized |-> last.rasterized,
                          fragments |-> last.fragments]
       /\ drawn' = [b \in 1 .. Len(pushed) |-> Segments(pushed[b])]
       /\ planet_index' = planet_index + 1
       /\ pc' = IF planet_index + 1 = Len(Planets) THEN "present" ELSE "planet"
       /\ UNCHANGED <<cvars, clock, last_frame, time, sky_stars, presented, samples,
                      accepted, skipped>>

\* window.update_with_buffer(&framebuffer.buffer, width, height).unwrap();
PresentStep ==
  /\ pc = "present"
  /\ ~panicked
  /\ presented' = [count |-> presented.count + 1, buffer |-> framebuffer.buffer,
                   time |-> time,
                   earlier |-> {c \in Cells : presented.buffer[c] # BackgroundColor}]
  /\ frame_log' = Append(frame_log, "present")
  /\ pc' = "loop"
  /\ UNCHANGED <<rvars, ovars, cvars, clock, last_frame, time, planet_index, orbits,
                 sky_stars, samples, accepted, skipped, drawn>>

\* the inputs of the frame loop
TickSteps == {1, MinInterval - 1}
LoopKeySets == { {}, {"A", "D"}, {"W"}, {"Left"} }
NoMesh == [vertices |-> <<>>, fragments |-> <<>>]
FrameMeshes ==
  { NoMesh,
    [vertices |-> <<Vertex(PA), Vertex(PB), Vertex(PC)>>,
     fragments |-> <<Fragment(2, 2, 1, White)>>] }
FrameStarLists ==
  { <<>>, <<Star(TRUE, 2, 2, 3, 1)>>, <<Star(TRUE, 0, 2, 2, 3)>> }

Init == InitRaster

Next ==
  \/ Tick(TickSteps, MaxClock, MaxClock)
  \/ LoopExit
  \/ LoopSkip
  \/ LoopAccept(MaxFrames)
  \/ InputStep(LoopKeySets)
  \/ ClearStep
  \/ ShipStep(FrameMeshes, FrameStarLists)
  \/ PlanetStep(FrameMeshes)
  \/ PresentStep

\* The frame loop of main.
Spec == Init /\ [][Next]_vars

\* The frame loop over TrailCap + 1 frames: no key down, nothing visible, a
\* tick of exactly the minimum interval between frames.
NextTrail ==
  \/ Tick({MinInterval}, MinInterval * (TrailCap + 1), MinInterval)
  \/ LoopAccept(TrailCap + 1)
  \/ InputStep({{}})
  \/ ClearStep
  \/ ShipStep({NoMesh}, {<<>>})
  \/ PlanetStep({NoMesh})
  \/ PresentStep

InitTrail == InitRaster /\ debug_build = FALSE

SpecTrail == InitTrail /\ [][NextTrail]_vars


\* ------------------------------------------- the draw items of one frame
\* One frame's fragments, stars and trail segments, processed in any order.
FragmentItem(f) == [kind |-> "fragment", fragment |-> f]
StarItem(st) == [kind |-> "star", star |-> st]
LineItem(a, b) == [kind |-> "line", start |-> a, end |-> b]

OrderItems ==
  { FragmentItem(Fragment(2, 2, 1, White)),
    FragmentItem(Fragment(2, 2, 2, Green)),
    FragmentItem(Fragment(3, 2, 1, Green)),
    FragmentItem(Fragment(0, 0, 2, Green)),
    StarItem(Star(TRUE, 2, 2, 3, 1)),
    StarItem(Star(TRUE, 2, 2, 1, 1)),
    StarItem(Star(TRUE, 0, 2, 2, 3)),
    LineItem(Vec(0, 0, 1), Vec(0, 0, 1)) }

ItemCalls(item, debug) ==
  IF item.kind = "fragment" THEN FragmentCalls(item.fragment)
  ELSE IF item.kind = "star" THEN StarCalls(item.star, debug)
  ELSE DrawLine(item.start, item.end, TrailColor)

ProcessItem ==
  \E item \in pending :
    /\ ~panicked
    /\ Run(ItemCalls(item, debug_build))
    /\ pending' = pending \ {item}
    /\ UNCHANGED <<debug_build, ops, last_render, batch, cvars, fvars>>

InitOrder ==
  /\ framebuffer = FbNew
  /\ written = {}
  /\ oob_changed = {}
  /\ wrapped_seen = FALSE
  /\ panicked = FALSE
  /\ debug_build \in BOOLEAN
  /\ ops = 0
  /\ last_render = NoRender
  /\ batch \in {b \in SUBSET OrderItems : Cardinality(b) >= 1 /\ Cardinality(b) <= MaxBatch}
  /\ pending = batch
  /\ camera = CameraNew
  /\ input = NoInput
  /\ InitFrame

NextOrder == ProcessItem

SpecOrder == InitOrder /\ [][NextOrder]_vars

\* The items of a set in one fixed order, and the buffer that order leaves.
RECURSIVE SeqOf(_)
SeqOf(S) ==
  IF S = {} THEN <<>>
  ELSE LET x == CHOOSE y \in S : TRUE IN <<x>> \o SeqOf(S \ {x})

RECURSIVE CallsOf(_, _)
CallsOf(items, debug) ==
  IF items = <<>> THEN <<>>
  ELSE ItemCalls(Head(items), debug) \o CallsOf(Tail(items), debug)

FixedOrderBuffer ==
  Exec(Machine(FbNew, {}, {}, FALSE, FALSE, <<>>), CallsOf(SeqOf(batch), debug_build)).fb.buffer

\* ------------------------------------------------------------- claims
WritesTo(cell) == {w \in written : w.cell = cell}
MinDepthWrites(cell) ==
  {w \in WritesTo(cell) : \A v \in WritesTo(cell) : w.depth <= v.depth}

\* C1: after any sequence of set_current_color / point calls following a
\* clear, every cell holds the colour of a write of smallest depth made to
\* it since the clear, and the background colour if there was none.
C1_SmallestDepthWins ==
  \A cell \in Cells :
    IF WritesTo(cell) = {}
    THEN /\ framebuffer.buffer[cell] = framebuffer.background_color
         /\ framebuffer.zbuffer[cell] = FarDepth
    ELSE \E w \in MinDepthWrites(cell) :
           /\ framebuffer.buffer[cell] = w.color
           /\ framebuffer.zbuffer[cell] = w.depth

\* C1 witness: cell (1,1) was written white at depth 1.0 and green at depth
\* 2.0 and holds white.
C1_Witness ==
  /\ [cell |-> <<1, 1>>, depth |-> 1 * DepthScale, color |-> White] \in written
  /\ [cell |-> <<1, 1>>, depth |-> 2 * DepthScale, color |-> Green] \in written
  /\ framebuffer.buffer[<<1, 1>>] = White

\* C5: in render_sb no coordinate handed to point comes from an unsigned
\* underflow: the subtraction neither wraps nor panics.
C5_NoUnderflow == ~wrapped_seen /\ ~panicked

\* C6: in render's fragment stage and in draw_line a pixel write whose
\* computed screen coordinate lies outside the framebuffer (before the
\* conversion to usize) changes no colour cell and no depth cell.
C6_OutOfBoundsIgnored == oob_changed \cap {"render", "draw_line"} = {}


\* Every item of the frame has been processed: the frame has a final buffer.
\* (A frame that a panic stopped has none, whatever the order.)
Completed == batch # {} /\ pending = {} /\ ~panicked

NoTie ==
  \A cell \in Cells :
    \A w1 \in MinDepthWrites(cell), w2 \in MinDepthWrites(cell) : w1.color = w2.color

Triple(tri, d) ==
  LET a == VSub(tri[2].position, tri[1].position)
      b == VSub(tri[3].position, tri[1].position)
  IN   d.x * (a.y * b.z - a.z * b.y)
     + d.y * (a.z * b.x - a.x * b.z)
     + d.z * (a.x * b.y - a.y * b.x)

FragmentsOf(k) ==
  {j \in 1 .. Len(last_render.fragments) : last_render.fragments[j].tri = k}

\* C8 (as claimed): with the view direction pointing from v0 toward the
\* origin, a triangle is discarded (zero fragments) exactly when
\* dot(normal, view direction) < 0.
C8_CullTowardOrigin ==
  \A k \in 1 .. Len(last_render.triangles) :
    LET tri == last_render.triangles[k]
        d == Triple(tri, VSub(Origin, tri[1].position))
    IN /\ (k \notin last_render.rasterized) <=> (d < 0)
       /\ (d < 0) => FragmentsOf(k) = {}

\* C8 (amended): with the view direction v0 - origin (pointing from the
\* origin toward v0), a triangle is discarded (handed to no rasterization,
\* zero fragments) exactly when dot(normal, view direction) < 0.
C8_CullFromOrigin ==
  \A k \in 1 .. Len(last_render.triangles) :
    LET tri == last_render.triangles[k]
        d == Triple(tri, VSub(tri[1].position, Origin))
    IN /\ (k \notin last_render.rasterized) <=> (d < 0)
       /\ (d < 0) => FragmentsOf(k) = {}

\* C8 witness: a render call that discarded one triangle and rasterized
\* another into fragments.
C8_Witness ==
  \E k1 \in 1 .. Len(last_render.triangles), k2 \in 1 .. Len(last_render.triangles) :
    /\ k1 \notin last_render.rasterized
    /\ Triple(last_render.triangles[k1], last_render.triangles[k1][1].position) < 0
    /\ k2 \in last_render.rasterized
    /\ FragmentsOf(k2) # {}


MovementKeys == {"A", "D", "W", "S", "Q", "E"}
Cancels(keys, k1, k2) == (k1 \in keys) <=> (k2 \in keys)
AllCancel(keys) ==
  /\ Cancels(keys, "A", "D") /\ Cancels(keys, "W", "S") /\ Cancels(keys, "Q", "E")
  /\ Cancels(keys, "Left", "Right") /\ Cancels(keys, "Up", "Down")

\* C9: handle_input leaves eye, center and up unchanged when no mapped key is
\* down and when the keys that are down cancel; when only movement keys are
\* down, eye and center are translated by the same vector.
C9_InputLeavesCamera ==
  input.called =>
    /\ AllCancel(input.keys) =>
         /\ camera.eye = input.before.eye
         /\ camera.center = input.before.center
         /\ camera.tilt = input.before.tilt
         /\ camera.up = input.before.up
    /\ input.keys \subseteq MovementKeys =>
         /\ VSub(camera.center, camera.eye) = VSub(input.before.center, input.before.eye)
         /\ VSub(camera.eye, input.before.eye) = VSub(camera.center, input.before.center)
         /\ camera.tilt = input.before.tilt
         /\ camera.up = input.before.up

\* C9 witness: after the camera has moved, turned and tilted, a call with A
\* and D both down left the camera where it was.
C9_Witness ==
  /\ input.called
  /\ input.keys = {"A", "D"}
  /\ camera.eye # CameraNew.eye
  /\ VSub(camera.center, camera.eye) # VSub(CameraNew.center, CameraNew.eye)
  /\ camera.eye = input.before.eye

\* ---------------------------------------------------------------- trails
\* the positions of the frames from..to of the body with loop index b
PositionsOf(b, from, to) ==
  [j \in 1 .. (to - from + 1) |-> OrbitalPosition(from + j - 1, b)]

\* the bodies whose iteration of the planet loop has run in this frame
Processed == IF pc \in {"planet", "present"} /\ ~panicked THEN 1 .. planet_index ELSE {}

\* C3: a trail never holds more than TrailCap positions, and once more than
\* TrailCap positions have been appended for a body (one per accepted frame)
\* its trail holds exactly the last TrailCap of them, in insertion order.
C3_TrailBounded ==
  /\ \A b \in DOMAIN orbits : Len(orbits[b]) <= TrailCap
  /\ \A b \in Processed :
       time > TrailCap =>
         orbits[b] = PositionsOf(b - 1, time - TrailCap + 1, time)

\* C4: in the k-th accepted frame (k <= TrailCap) the trail of every body
\* holds the positions of frames 1..k in time order, and the frame draws the
\* k - 1 segments that join them.
C4_TrailPersists ==
  \A b \in Processed :
    time <= TrailCap =>
      /\ orbits[b] = PositionsOf(b - 1, 1, time)
      /\ drawn[b] = time - 1

\* ----------------------------------------------------------- frame pacing
C7_Inv ==
  /\ Len(accepted) = Min(time, 2)
  /\ \A j \in 1 .. Len(accepted) - 1 : accepted[j + 1] - accepted[j] >= MinInterval
  /\ samples = IF pc = "input" THEN time - 1 ELSE time

C7_Step ==
  /\ (pc = "loop" /\ pc' # "loop" /\ pc' # "exited") =>
       /\ clock - last_frame >= MinInterval
       /\ pc' = "input"
       /\ time' = time + 1
       /\ last_frame' = clock
  /\ (pc = "loop" /\ clock - last_frame < MinInterval) =>
       /\ pc' \in {"loop", "exited"}
       /\ UNCHANGED <<time, last_frame, camera, framebuffer, samples, presented>>
  /\ time' # time => (pc = "loop" /\ time' = time + 1)
  /\ last_frame' # last_frame =>
       /\ time' = time + 1
       /\ last_frame' - last_frame >= MinInterval
  /\ samples' # samples => (pc = "input" /\ samples' = samples + 1)
  /\ presented' # presented => pc = "present"

\* C7: the loop enters a frame only when at least MinInterval ms have passed
\* since the last accepted frame; an iteration that comes earlier leaves the
\* time counter, the last-frame timestamp, the camera and the framebuffer
\* unchanged, samples no input and presents nothing; accepted frames are at
\* least MinInterval apart and the time counter grows by 1 per accepted frame.
C7_FramePacing == []C7_Inv /\ [][C7_Step]_vars

\* C7 witness: an iteration was skipped after the second accepted frame, and
\* the two accepted frames are at least MinInterval apart.
C7_Witness ==
  /\ skipped
  /\ pc = "loop"
  /\ time = 2
  /\ samples = 2
  /\ presented.count = 2
  /\ accepted[2] - accepted[1] >= MinInterval
  /\ clock - last_frame < MinInterval

\* ------------------------------------------------------------ frame order
IsObject(e) == e \notin {"skybox", "trails"}
ObjectLog == SelectSeq(frame_log, IsObject)
ObjectOrder ==
  << "clear", "Ship", "Sun", "VolcanicPlanet", "Earth", "RockyPlanet", "Moon",
     "GasPlanet", "RingPlanet", "Ring", "IcyPlanet", "present" >>
IsPrefix(s, t) == Len(s) <= Len(t) /\ s = SubSeq(t, 1, Len(s))
Idle == pc \in {"loop", "exited"}

\* The order of the steps of a frame: the clear comes first, the objects are
\* drawn in the source order, the presentation comes after the last draw and
\* at most once; every pixel of the presented buffer is the background or a
\* write of that frame, and no iteration presents without being accepted.
OrderOfSteps ==
  /\ IsPrefix(ObjectLog, ObjectOrder)
  /\ (Idle /\ time > 0) => ObjectLog = ObjectOrder
  /\ (~Idle /\ frame_log # <<>>) => frame_log[1] = "clear"
  /\ presented.count = IF Idle THEN time ELSE time - 1
  /\ (Idle /\ time > 0) =>
       /\ presented.time = time
       /\ presented.buffer = framebuffer.buffer
       /\ \A c \in Cells :
            \/ presented.buffer[c] = BackgroundColor
            \/ \E w \in written : w.cell = c /\ w.color = presented.buffer[c]

\* An accepted frame that a panic stopped before its presentation.
FrameAborted == ~Idle /\ panicked

\* C10: within every accepted frame the clear comes first, the objects are
\* drawn in the source order (ship, sun, the six planets, the moon right after
\* the rocky planet and the ring right after the ringed planet) and the buffer
\* is presented exactly once, after the last draw; no pixel of an earlier
\* frame is in the presented buffer and a skipped iteration presents nothing.
C10_FrameOrder == OrderOfSteps /\ ~FrameAborted

\* ------------------------------------------------------------ cancellation
\* The exit flag is examined at the top of an iteration only: the loop has
\* ended between frames, with every accepted frame drawn in full and
\* presented, and the frame that was running when the flag came up complete.
ExitBetweenFrames ==
  pc = "exited" =>
    /\ presented.count = time
    /\ samples = time
    /\ time > 0 => (ObjectLog = ObjectOrder /\ presented.buffer = framebuffer.buffer)

\* C11: the exit flag (Escape down or window closed) is examined once per
\* iteration, before the pacing gate and before any rendering step, so the
\* loop ends only between frames; a frame that has started always runs
\* through the clear, all draws and the presentation, so no frame is left
\* partially rendered.
C11_Cancellation == ExitBetweenFrames /\ (~Idle => ~panicked)


====
